---- MODULE Spec2Model ----
(***************************************************************************)
(* A model of cord.nvim's unix IPC client (impl Connection for RichClient, *)
(* src/src/ipc/platform/unix_connection.rs): socket discovery in connect,  *)
(* the framed write/read, handshake, update, clear and close.              *)
(*                                                                         *)
(* Option<T> is modelled as a sequence: None is <<>> and Some(x) is <<x>>. *)
(* Bytes are the integers 0..255; a buffer is a sequence of bytes.         *)
(***************************************************************************)
EXTENDS Integers, Sequences, FiniteSets, TLC

VARIABLES
    environ,        \* the process environment: variable name -> Option of its value
    sockets,        \* the filesystem: what UnixStream::connect answers for discord-ipc-<i>
                    \* in the directory connect looks in
    phase,          \* "unconnected", "connected" (a RichClient exists), "failed", "panicked"
    client_id,      \* RichClient.client_id
    pipe,           \* RichClient.pipe : Option<UnixStream>, the index of the socket held
    last_activity,  \* RichClient.last_activity : Option<Activity>
    attempts,       \* the socket indices connect has tried, in order
    paths,          \* the socket paths connect has tried, in order
    connect_error,  \* Option: the error connect returned
    wire,           \* every write_all / flush made on the stream, in order
    calls           \* the calls made on the client, in order, with their results

vars == <<environ, sockets, phase, client_id, pipe, last_activity, attempts,
          paths, connect_error, wire, calls>>

----------------------------------------------------------------------------
(* Bounds of the model *)

\* the number of method calls made on one client in a run
MaxCalls == 3
\* the number of candidate sockets that exist (answer anything but NotFound), SpecConnect
MaxPresent == 2
\* the lowest candidate indices at which a socket may exist in the life-cycle runs
LifecycleSlots == 1

(* Program constants *)

\* for i in 0..10
NumCandidates == 10

None == <<>>
Some(x) == <<x>>

\* what UnixStream::connect can answer: success, io::ErrorKind::NotFound, or another kind
ConnectOutcomes == {"Ok", "NotFound", "PermissionDenied", "ConnectionRefused"}

ClientIds == {12345}

\* Activity values (opaque, equality-comparable) and the packets that carry them;
\* json is the outcome of Packet::to_json for the packet
Activities == {1, 2}
Packets == [activity : {None} \cup {Some(a) : a \in Activities}, json : {"Ok", "Err"}]

\* outcome of one write_all / flush on the stream
IOs == {"Ok", "Err"}

----------------------------------------------------------------------------
(* Frame codec (crate::ipc::utils) and serialization *)

\* u32::to_le_bytes; every length and opcode of the model is below 2^31, where the
\* cast `as u32` is the identity
LE32(n) ==
    << n % 256, (n \div 256) % 256, (n \div 65536) % 256, (n \div 16777216) % 256 >>

\* utils::encode(opcode, length): the 8-byte header
encode(opcode, length) == LE32(opcode) \o LE32(length)

\* utils::decode(header): the length field of a header
decode(header) ==
    header[5] + 256 * header[6] + 65536 * header[7] + 16777216 * header[8]

\* the opcode field of a header (what the daemon reads)
opcode_of(header) ==
    header[1] + 256 * header[2] + 65536 * header[3] + 16777216 * header[4]

\* format!("{}", n) for an unsigned integer, as ASCII bytes
RECURSIVE Decimal(_)
Decimal(n) == IF n < 10 THEN << 48 + n >> ELSE Decimal(n \div 10) \o << 48 + (n % 10) >>

\* format!("{{\"v\": 1,\"client_id\":\"{}\"}}", client_id).as_bytes()
handshake_payload(id) ==
    << 123, 34, 118, 34, 58, 32, 49, 44,
       34, 99, 108, 105, 101, 110, 116, 95, 105, 100, 34, 58, 34 >>
    \o Decimal(id) \o << 34, 125 >>

\* Packet::to_json: Ok(bytes) as Some(bytes), Err as None; the bytes are opaque to
\* the client, one distinct text per activity
to_json(packet) ==
    IF packet.json = "Err" THEN None
    ELSE IF packet.activity = None THEN Some(<< 123, 125 >>)
    ELSE Some(<< 123, 48 + packet.activity[1], 125 >>)

----------------------------------------------------------------------------
(* The stream *)

\* one write_all(buf) on the stream with outcome io: an empty buffer is written by
\* no system call and cannot fail; a failed write_all may have delivered any strict
\* prefix of buf
write_all(buf, io) ==
    [kind |-> "write_all", buf |-> buf, ok |-> (buf = <<>> \/ io = "Ok")]

\* one flush() on the stream
flush(io) == [kind |-> "flush", buf |-> <<>>, ok |-> (io = "Ok")]

----------------------------------------------------------------------------
(* The client: self is [client_id, pipe, last_activity]; every method returns    *)
(* [self |-> the client after the call, out |-> the stream operations it made,  *)
(*  res |-> "Ok" | "Err" | "Panic", ret |-> Option of the value returned]       *)

Result(self, out, res, ret) == [self |-> self, out |-> out, res |-> res, ret |-> ret]

\* std::env::var(name): Ok(value) as Some(value), Err as None
var(env, name) == env[name]

\* socket_dir with TMP looked up before TMPDIR
socket_dir_tmp_first(env) ==
    IF var(env, "XDG_RUNTIME_DIR") # None THEN var(env, "XDG_RUNTIME_DIR")[1]
    ELSE IF var(env, "TMP") # None THEN var(env, "TMP")[1]
    ELSE IF var(env, "TMPDIR") # None THEN var(env, "TMPDIR")[1]
    ELSE IF var(env, "TEMP") # None THEN var(env, "TEMP")[1]
    ELSE "/tmp"

\* the directory connect looks in: var("XDG_RUNTIME_DIR").or_else(TMPDIR)
\* .or_else(TMP).or_else(TEMP).unwrap_or_else("/tmp")
socket_dir(env) ==
    IF var(env, "XDG_RUNTIME_DIR") # None THEN var(env, "XDG_RUNTIME_DIR")[1]
    ELSE IF var(env, "TMPDIR") # None THEN var(env, "TMPDIR")[1]
    ELSE IF var(env, "TMP") # None THEN var(env, "TMP")[1]
    ELSE IF var(env, "TEMP") # None THEN var(env, "TEMP")[1]
    ELSE "/tmp"

\* format!("{}/discord-ipc-{}", path, i), kept as its three parts
candidate_path(dir, i) == << dir, "/discord-ipc-", i >>

\* probe with every failed attempt skipped, whatever its kind
RECURSIVE probe_skips_errors(_, _)
probe_skips_errors(env, i) ==
    IF i >= NumCandidates
    THEN [tried |-> <<>>, res |-> "Pipe not found", pipe |-> None]
    ELSE IF env[i] = "Ok"
    THEN [tried |-> <<i>>, res |-> "Ok", pipe |-> Some(i)]
    ELSE LET r == probe_skips_errors(env, i + 1) IN [r EXCEPT !.tried = <<i>> \o r.tried]

\* probe with the range one short: for i in 0..9
RECURSIVE probe_one_short(_, _)
probe_one_short(env, i) ==
    IF i >= NumCandidates - 1
    THEN [tried |-> <<>>, res |-> "Pipe not found", pipe |-> None]
    ELSE IF env[i] = "Ok"
    THEN [tried |-> <<i>>, res |-> "Ok", pipe |-> Some(i)]
    ELSE IF env[i] = "NotFound"
    THEN LET r == probe_one_short(env, i + 1) IN [r EXCEPT !.tried = <<i>> \o r.tried]
    ELSE [tried |-> <<i>>, res |-> env[i], pipe |-> None]

\* the loop of connect from candidate i on: the indices tried, the outcome, the pipe
RECURSIVE probe(_, _)
probe(env, i) ==
    IF i >= NumCandidates
    THEN [tried |-> <<>>, res |-> "Pipe not found", pipe |-> None]
    ELSE IF env[i] = "Ok"
    THEN [tried |-> <<i>>, res |-> "Ok", pipe |-> Some(i)]
    ELSE IF env[i] = "NotFound"
    THEN LET r == probe(env, i + 1) IN [r EXCEPT !.tried = <<i>> \o r.tried]
    ELSE [tried |-> <<i>>, res |-> env[i], pipe |-> None]

\* connect with the scan started at candidate 1
connect_from_one(env, id) ==
    LET r == probe(env, 1)
    IN  [tried |-> r.tried,
         res   |-> r.res,
         self  |-> IF r.res = "Ok"
                   THEN Some([client_id |-> id, pipe |-> r.pipe, last_activity |-> None])
                   ELSE None]

\* RichClient::connect(client_id) in the filesystem env
connect(env, id) ==
    LET r == probe(env, 0)
    IN  [tried |-> r.tried,
         res   |-> r.res,
         self  |-> IF r.res = "Ok"
                   THEN Some([client_id |-> id, pipe |-> r.pipe, last_activity |-> None])
                   ELSE None]

\* write without the guard on the pipe
write_unguarded(self, opcode, data, io) ==
    IF data # None
    THEN LET packet == data[1]
             w1 == write_all(encode(opcode, Len(packet)), io[1])
             w2 == write_all(packet, io[2])
         IN  IF ~w1.ok THEN Result(self, <<w1>>, "Err", None)
             ELSE IF ~w2.ok THEN Result(self, <<w1, w2>>, "Err", None)
             ELSE Result(self, <<w1, w2>>, "Ok", None)
    ELSE LET w1 == write_all(encode(opcode, 0), io[1])
         IN  IF ~w1.ok THEN Result(self, <<w1>>, "Err", None)
             ELSE Result(self, <<w1>>, "Ok", None)

\* write with the result of the header write dropped (no `?`): the payload is
\* written whatever became of the header
write_ignores_header_error(self, opcode, data, io) ==
    IF self.pipe # None
    THEN IF data # None
         THEN LET packet == data[1]
                  w1 == write_all(encode(opcode, Len(packet)), io[1])
                  w2 == write_all(packet, io[2])
              IN  IF ~w2.ok THEN Result(self, <<w1, w2>>, "Err", None)
                  ELSE Result(self, <<w1, w2>>, "Ok", None)
         ELSE LET w1 == write_all(encode(opcode, 0), io[1])
              IN  IF ~w1.ok THEN Result(self, <<w1>>, "Err", None)
                  ELSE Result(self, <<w1>>, "Ok", None)
    ELSE Result(self, <<>>, "Ok", None)

\* write that drops the pipe when a write_all fails
write_evicts_on_error(self, opcode, data, io) ==
    LET evicted == [self EXCEPT !.pipe = None]
    IN  IF self.pipe # None
        THEN IF data # None
             THEN LET packet == data[1]
                      w1 == write_all(encode(opcode, Len(packet)), io[1])
                      w2 == write_all(packet, io[2])
                  IN  IF ~w1.ok THEN Result(evicted, <<w1>>, "Err", None)
                      ELSE IF ~w2.ok THEN Result(evicted, <<w1, w2>>, "Err", None)
                      ELSE Result(self, <<w1, w2>>, "Ok", None)
             ELSE LET w1 == write_all(encode(opcode, 0), io[1])
                  IN  IF ~w1.ok THEN Result(evicted, <<w1>>, "Err", None)
                      ELSE Result(self, <<w1>>, "Ok", None)
        ELSE Result(self, <<>>, "Ok", None)

\* RichClient::write(opcode, data), io = <<outcome of the header write, of the payload write>>
write(self, opcode, data, io) ==
    IF self.pipe # None
    THEN IF data # None
         THEN LET packet == data[1]
                  w1 == write_all(encode(opcode, Len(packet)), io[1])
                  w2 == write_all(packet, io[2])
              IN  IF ~w1.ok THEN Result(self, <<w1>>, "Err", None)
                  ELSE IF ~w2.ok THEN Result(self, <<w1, w2>>, "Err", None)
                  ELSE Result(self, <<w1, w2>>, "Ok", None)
         ELSE LET w1 == write_all(encode(opcode, 0), io[1])
              IN  IF ~w1.ok THEN Result(self, <<w1>>, "Err", None)
                  ELSE Result(self, <<w1>>, "Ok", None)
    ELSE Result(self, <<>>, "Ok", None)

\* read with a plain read() in place of read_exact for the payload: it returns what
\* has arrived when the stream ends early
read_truncating(self, avail) ==
    IF self.pipe # None
    THEN IF Len(avail) < 8 THEN Result(self, <<>>, "Err", None)
         ELSE LET header == SubSeq(avail, 1, 8)
                  n == decode(header)
              IN  IF Len(avail) - 8 < n
                  THEN Result(self, <<>>, "Ok", Some(SubSeq(avail, 9, Len(avail))))
                  ELSE Result(self, <<>>, "Ok", Some(SubSeq(avail, 9, 8 + n)))
    ELSE Result(self, <<>>, "Err", None)

\* RichClient::read(), avail = the bytes the peer delivers before the stream ends
read(self, avail) ==
    IF self.pipe # None
    THEN IF Len(avail) < 8 THEN Result(self, <<>>, "Err", None)
         ELSE LET header == SubSeq(avail, 1, 8)
                  n == decode(header)
              IN  IF Len(avail) - 8 < n THEN Result(self, <<>>, "Err", None)
                  ELSE Result(self, <<>>, "Ok", Some(SubSeq(avail, 9, 8 + n)))
    ELSE Result(self, <<>>, "Err", None)

\* close with self.pipe.as_mut() in place of self.pipe.take()
close_keeps_pipe(self, io) ==
    IF self.pipe # None
    THEN LET w == write_all(encode(2, 0), io[1])
             f == flush(io[2])
         IN  IF ~w.ok THEN Result(self, <<w>>, "Err", None)
             ELSE IF ~f.ok THEN Result(self, <<w, f>>, "Err", None)
             ELSE Result(self, <<w, f>>, "Ok", None)
    ELSE Result(self, <<>>, "Ok", None)

\* close that gives the pipe up only after the write and the flush succeeded
close_releases_on_success(self, io) ==
    IF self.pipe # None
    THEN LET taken == [self EXCEPT !.pipe = None]
             w == write_all(encode(2, 0), io[1])
             f == flush(io[2])
         IN  IF ~w.ok THEN Result(self, <<w>>, "Err", None)
             ELSE IF ~f.ok THEN Result(self, <<w, f>>, "Err", None)
             ELSE Result(taken, <<w, f>>, "Ok", None)
    ELSE Result(self, <<>>, "Ok", None)

\* RichClient::close(), io = <<outcome of the write, of the flush>>
close(self, io) ==
    IF self.pipe # None
    THEN LET taken == [self EXCEPT !.pipe = None]
             w == write_all(encode(2, 0), io[1])
             f == flush(io[2])
         IN  IF ~w.ok THEN Result(taken, <<w>>, "Err", None)
             ELSE IF ~f.ok THEN Result(taken, <<w, f>>, "Err", None)
             ELSE Result(taken, <<w, f>>, "Ok", None)
    ELSE Result(self, <<>>, "Ok", None)

\* handshake with the JSON written without the space after "v":
handshake_compact_json(self, io) ==
    write(self, 0,
          Some(<< 123, 34, 118, 34, 58, 49, 44,
                  34, 99, 108, 105, 101, 110, 116, 95, 105, 100, 34, 58, 34 >>
               \o Decimal(self.client_id) \o << 34, 125 >>),
          io)

\* RichClient::handshake()
handshake(self, io) ==
    write(self, 0, Some(handshake_payload(self.client_id)), io)

\* update with the cache assigned before the write is attempted
update_caches_first(self, packet, io) ==
    IF packet.activity # self.last_activity
    THEN LET json == to_json(packet)
             cached == [self EXCEPT !.last_activity = packet.activity]
         IN  IF json = None THEN Result(self, <<>>, "Panic", None)
             ELSE write(cached, 1, json, io)
    ELSE Result(self, <<>>, "Ok", None)

\* update without the comparison with the cache
update_without_dedup(self, packet, io) ==
    LET json == to_json(packet)
    IN  IF json = None THEN Result(self, <<>>, "Panic", None)
        ELSE write(self, 1, json, io)

\* RichClient::update(packet)
update(self, packet, io) ==
    IF packet.activity # self.last_activity
    THEN LET json == to_json(packet)
         IN  IF json = None THEN Result(self, <<>>, "Panic", None)
             ELSE write(self, 1, json, io)
    ELSE Result(self, <<>>, "Ok", None)

\* clear with the Close opcode in place of the Frame opcode
clear_with_close_opcode(self, io) == write(self, 2, None, io)

\* RichClient::clear()
clear(self, io) == write(self, 1, None, io)

----------------------------------------------------------------------------
(* The state machine *)

Self == [client_id |-> client_id, pipe |-> pipe, last_activity |-> last_activity]

NotFoundEverywhere == [i \in 0..(NumCandidates - 1) |-> "NotFound"]

\* the filesystems in which the sockets of the index set idx exist
EnvsOver(idx) ==
    {[i \in 0..(NumCandidates - 1) |-> IF i \in idx THEN f[i] ELSE "NotFound"] :
        f \in [idx -> ConnectOutcomes \ {"NotFound"}]}

\* filesystems with at most MaxPresent sockets
Environments ==
    UNION {EnvsOver(idx) : idx \in {s \in SUBSET (0..(NumCandidates - 1)) :
                                        Cardinality(s) <= MaxPresent}}

\* filesystems with at most one socket, at one of the lowest indices
LifecycleEnvs ==
    UNION {EnvsOver(idx) : idx \in {s \in SUBSET (0..(LifecycleSlots - 1)) :
                                        Cardinality(s) <= 1}}

\* the variables connect looks up and the values they may hold
EnvNames == {"XDG_RUNTIME_DIR", "TMPDIR", "TMP", "TEMP"}
EnvValues == {"/run/user/1000", "/var/tmp"}

\* every assignment of unset / set to a value
Environs == [EnvNames -> {None} \cup {Some(d) : d \in EnvValues}]

NothingSet == [v \in EnvNames |-> None]

InitClient ==
    /\ phase = "unconnected"
    /\ paths = <<>>
    /\ client_id = 0
    /\ pipe = None
    /\ last_activity = None
    /\ attempts = <<>>
    /\ connect_error = None
    /\ wire = <<>>
    /\ calls = <<>>

Init == environ = NothingSet /\ sockets \in LifecycleEnvs /\ InitClient

InitConnect == environ \in Environs /\ sockets \in Environments /\ InitClient

Connect(id) ==
    /\ phase = "unconnected"
    /\ LET r == connect(sockets, id)
           dir == socket_dir(environ)
       IN  /\ attempts' = r.tried
           /\ paths' = [j \in 1..Len(r.tried) |-> candidate_path(dir, r.tried[j])]
           /\ IF r.self # None
              THEN /\ phase' = "connected"
                   /\ client_id' = r.self[1].client_id
                   /\ pipe' = r.self[1].pipe
                   /\ last_activity' = r.self[1].last_activity
                   /\ connect_error' = None
              ELSE /\ phase' = "failed"
                   /\ connect_error' = Some(r.res)
                   /\ UNCHANGED <<client_id, pipe, last_activity>>
    /\ UNCHANGED <<environ, sockets, wire, calls>>

\* a call of method op with argument arg that went as r
Call(op, arg, r) ==
    /\ client_id' = r.self.client_id
    /\ pipe' = r.self.pipe
    /\ last_activity' = r.self.last_activity
    /\ wire' = wire \o r.out
    /\ calls' = Append(calls, [op |-> op, arg |-> arg, res |-> r.res, ret |-> r.ret,
                               held |-> (pipe # None),
                               before |-> Self, after |-> r.self,
                               from |-> Len(wire), to |-> Len(wire) + Len(r.out)])
    /\ phase' = IF r.res = "Panic" THEN "panicked" ELSE phase
    /\ UNCHANGED <<environ, sockets, attempts, paths, connect_error>>

CanCall == phase = "connected" /\ Len(calls) < MaxCalls

IoScripts == IOs \X IOs

\* the payloads a caller hands to write directly
WriteOpcodes == {1, 2}
WritePayloads == {None, Some(<< 120, 121 >>)}

\* what the peer may deliver before its stream ends: half a header, a header
\* declaring 2 bytes with 1 byte, with 2 bytes, and with 3 bytes
PeerStreams ==
    { << 1, 0, 0, 0 >>,
      encode(1, 2) \o << 7 >>,
      encode(1, 2) \o << 7, 8 >>,
      encode(1, 2) \o << 7, 8, 9 >> }

Write ==
    /\ CanCall
    /\ \E opcode \in WriteOpcodes, data \in WritePayloads, io \in IoScripts :
          Call("write", <<opcode, data>>, write(Self, opcode, data, io))

Read ==
    /\ CanCall
    /\ \E avail \in PeerStreams : Call("read", avail, read(Self, avail))

Close ==
    /\ CanCall
    /\ \E io \in IoScripts : Call("close", None, close(Self, io))

Handshake ==
    /\ CanCall
    /\ \E io \in IoScripts : Call("handshake", None, handshake(Self, io))

Update ==
    /\ CanCall
    /\ \E packet \in Packets, io \in IoScripts :
          Call("update", packet, update(Self, packet, io))

Clear ==
    /\ CanCall
    /\ \E io \in IoScripts : Call("clear", None, clear(Self, io))

ConnectAny == \E id \in ClientIds : Connect(id)

Next ==
    \/ ConnectAny
    \/ Write
    \/ Read
    \/ Close
    \/ Handshake
    \/ Update
    \/ Clear

Spec == Init /\ [][Next]_vars

\* the client identifiers of the handshake runs: one to ten decimal digits
HandshakeIds == {0, 7, 10, 12345, 2147483647}

ConnectWithId == \E id \in HandshakeIds : Connect(id)

\* connect, handshake and close, over clients of every identifier of HandshakeIds
NextHandshake ==
    \/ ConnectWithId
    \/ Handshake
    \/ Close

SpecHandshake == Init /\ [][NextHandshake]_vars

\* connect alone, over every filesystem with at most MaxPresent sockets
NextConnect == ConnectAny

SpecConnect == InitConnect /\ [][NextConnect]_vars

----------------------------------------------------------------------------
(* Properties *)

LastCall == calls[Len(calls)]

\* call n made stream operations
Sent(n) == calls[n].to > calls[n].from

\* the 8-byte headers among the stream operations lo+1..hi
HeadersIn(lo, hi) ==
    {k \in (lo + 1)..hi : wire[k].kind = "write_all" /\ Len(wire[k].buf) = 8}

\* the operations that perform I/O on the transport
IoOps == {"write", "read", "handshake", "update", "clear"}

FirstPresentIs(i) ==
    /\ sockets[i] # "NotFound"
    /\ \A j \in 0..(i - 1) : sockets[j] = "NotFound"

\* C1: when update(A) is called twice in a row on a client holding a transport, the
\* first call succeeding, the two calls together write at most one frame, and the
\* second call writes nothing and returns success.
C1_DedupTwoUpdatesOneFrame ==
    \A n \in 2..Len(calls) :
        (/\ calls[n - 1].op = "update"
         /\ calls[n].op = "update"
         /\ calls[n - 1].arg.activity = calls[n].arg.activity
         /\ calls[n - 1].held
         /\ calls[n - 1].res = "Ok")
        => /\ ~Sent(n)
           /\ calls[n].res = "Ok"
           /\ Cardinality(HeadersIn(calls[n - 1].from, calls[n].to)) <= 1

\* C2: right after an update(new_activity) whose frame write succeeded,
\* last_activity = Some(new_activity).
C2_SuccessfulUpdateCaches ==
    (/\ Len(calls) > 0
     /\ LastCall.op = "update"
     /\ LastCall.res = "Ok"
     /\ Sent(Len(calls)))
    => last_activity = LastCall.arg.activity

\* C3: an update whose frame write fails returns the error and leaves last_activity
\* as it was; and last_activity changes only in an update call that wrote its frame
\* and returned success.
C3_FailedUpdateKeepsCache ==
    [][/\ (/\ Len(calls') > Len(calls)
           /\ LastCall'.op = "update"
           /\ \E k \in (Len(wire) + 1)..Len(wire') : ~wire'[k].ok)
          => (LastCall'.res = "Err" /\ last_activity' = last_activity)
       /\ (last_activity' # last_activity)
          => (/\ Len(calls') > Len(calls)
              /\ LastCall'.op = "update"
              /\ LastCall'.res = "Ok"
              /\ LastCall'.to > LastCall'.from)]_vars

\* C3 witness: an update on a held transport whose write failed
C3_Witness ==
    /\ Len(calls) > 0
    /\ LastCall.op = "update"
    /\ LastCall.held
    /\ LastCall.res = "Err"
    /\ \E k \in (LastCall.from + 1)..LastCall.to : ~wire[k].ok
    /\ LastCall.arg.activity # last_activity

\* C4: connect tries the candidates 0, 1, 2, ... in order, goes on only past
\* NotFound, and when candidate k is the first socket present and connectable, returns
\* a client holding exactly k, with last_activity = None, having tried nothing above k.
C4_DiscoveryOrder ==
    phase # "unconnected" =>
        /\ \A j \in 1..Len(attempts) : attempts[j] = j - 1
        /\ \A j \in 1..(Len(attempts) - 1) : sockets[attempts[j]] = "NotFound"
        /\ \A k \in 0..(NumCandidates - 1) :
              (FirstPresentIs(k) /\ sockets[k] = "Ok")
              => /\ phase = "connected"
                 /\ pipe = Some(k)
                 /\ last_activity = None
                 /\ connect_error = None
                 /\ Len(attempts) = k + 1

\* C4 witness: connected at an index above 0 while a higher socket exists too
C4_Witness ==
    /\ phase = "connected"
    /\ pipe # None
    /\ pipe[1] >= 1
    /\ \E j \in (pipe[1] + 1)..(NumCandidates - 1) : sockets[j] = "Ok"

\* C5: when the first socket present answers an error other than NotFound, connect
\* fails with that error, creates no client and tries no later candidate.
C5_ErrorStopsScan ==
    phase # "unconnected" =>
        \A k \in 0..(NumCandidates - 1) :
            (FirstPresentIs(k) /\ sockets[k] # "Ok")
            => /\ phase = "failed"
               /\ connect_error = Some(sockets[k])
               /\ pipe = None
               /\ Len(attempts) = k + 1
               /\ \A j \in 1..Len(attempts) : attempts[j] <= k

\* C5 witness: connect failed on a permission error though a later socket is connectable
C5_Witness ==
    /\ phase = "failed"
    /\ connect_error = Some("PermissionDenied")
    /\ \E j \in (attempts[Len(attempts)] + 1)..(NumCandidates - 1) : sockets[j] = "Ok"

\* C6: connect never tries more than ten candidates, and when all ten answer NotFound
\* it tries exactly ten, fails with "Pipe not found" and creates no client.
C6_Exhaustion ==
    /\ Len(attempts) <= NumCandidates
    /\ (phase # "unconnected" /\ sockets = NotFoundEverywhere)
       => /\ Len(attempts) = NumCandidates
          /\ phase = "failed"
          /\ connect_error = Some("Pipe not found")
          /\ pipe = None

\* C6 witness: a failed connect that tried all ten candidates
C6_Witness ==
    /\ phase = "failed"
    /\ Len(attempts) = NumCandidates
    /\ connect_error = Some("Pipe not found")

\* the Close frames (header of opcode 2 and length 0) written on the stream
CloseFrames ==
    {k \in 1..Len(wire) : wire[k].kind = "write_all" /\ wire[k].buf = encode(2, 0)}

\* C7 as stated: over all operations of a client at most one Close frame is ever
\* written, and a close without transport writes nothing and returns success.
C7_AtMostOneCloseFrameEver ==
    /\ Cardinality(CloseFrames) <= 1
    /\ \A n \in 1..Len(calls) :
          (calls[n].op = "close" /\ ~calls[n].held) => (~Sent(n) /\ calls[n].res = "Ok")

\* C7 as amended: the close calls of a client write at most one Close frame between
\* them (at most one close call writes anything, and it writes one Close header), and
\* a close without transport writes nothing and returns success.
C7_CloseIdempotent ==
    /\ Cardinality({n \in 1..Len(calls) : calls[n].op = "close" /\ Sent(n)}) <= 1
    /\ \A n \in 1..Len(calls) :
          calls[n].op = "close"
          => /\ Cardinality(HeadersIn(calls[n].from, calls[n].to)) <= 1
             /\ \A k \in HeadersIn(calls[n].from, calls[n].to) : wire[k].buf = encode(2, 0)
             /\ ~calls[n].held => (~Sent(n) /\ calls[n].res = "Ok")

\* C7 witness: a close that wrote its frame, then a second close
C7_Witness ==
    \E n \in 1..Len(calls), m \in 1..Len(calls) :
        /\ n < m
        /\ calls[n].op = "close" /\ calls[n].held /\ Sent(n)
        /\ calls[m].op = "close" /\ ~Sent(m) /\ calls[m].res = "Ok"

\* C8: once close has been called the client holds no transport in any later state,
\* and no later call holds one or performs any stream operation.
C8_ClosedIsTerminal ==
    \A n \in 1..Len(calls) :
        calls[n].op = "close"
        => /\ pipe = None
           /\ \A m \in (n + 1)..Len(calls) : ~calls[m].held /\ ~Sent(m)

\* C8 witness: a close followed by a handshake and an update
C8_Witness ==
    \E n \in 1..Len(calls) :
        /\ calls[n].op = "close"
        /\ calls[n].held
        /\ \E m \in (n + 1)..Len(calls) : calls[m].op = "handshake"
        /\ \E m \in (n + 1)..Len(calls) : calls[m].op = "update" /\ calls[m].arg.activity # None

\* C9: no update, clear or close writes a frame unless an earlier handshake call
\* wrote the Handshake frame.
C9_HandshakeFirst ==
    \A n \in 1..Len(calls) :
        (calls[n].op \in {"update", "clear", "close"} /\ Sent(n))
        => \E m \in 1..(n - 1) : calls[m].op = "handshake" /\ Sent(m)

\* C10: the I/O operations called without a transport all end the same way.
C10_UniformWithoutTransport ==
    \A n \in 1..Len(calls), m \in 1..Len(calls) :
        (/\ calls[n].op \in IoOps /\ ~calls[n].held
         /\ calls[m].op \in IoOps /\ ~calls[m].held)
        => calls[n].res = calls[m].res

\* the length a received header declares, read off its last four bytes
Declared(avail) == avail[5] + 256 * (avail[6] + 256 * (avail[7] + 256 * avail[8]))

\* C11: a read returns a buffer only when the 8 header bytes and all the payload
\* bytes the header declares have arrived, the buffer being exactly those payload
\* bytes; when the stream ends inside the header or inside the payload, read fails
\* and returns no buffer.
C11_ExactLengthRead ==
    \A n \in 1..Len(calls) :
        calls[n].op = "read"
        => LET avail == calls[n].arg
           IN  /\ calls[n].res = "Ok"
                  => /\ Len(avail) >= 8
                     /\ Len(avail) - 8 >= Declared(avail)
                     /\ calls[n].ret # None
                     /\ Len(calls[n].ret[1]) = Declared(avail)
                     /\ \A j \in 1..Declared(avail) : calls[n].ret[1][j] = avail[8 + j]
               /\ (Len(avail) < 8 \/ Len(avail) - 8 < Declared(avail))
                  => (calls[n].res = "Err" /\ calls[n].ret = None)

\* C11 witness: on a held transport, one read that met a stream ending inside the
\* payload and failed, and one that received a whole frame
C11_Witness ==
    /\ \E n \in 1..Len(calls) :
          /\ calls[n].op = "read" /\ calls[n].held
          /\ Len(calls[n].arg) >= 8
          /\ Len(calls[n].arg) - 8 < Declared(calls[n].arg)
          /\ calls[n].res = "Err"
    /\ \E n \in 1..Len(calls) :
          /\ calls[n].op = "read" /\ calls[n].held
          /\ calls[n].res = "Ok"
          /\ calls[n].ret = Some(<< 7, 8 >>)

\* C12: an update whose packet fails to serialize (the activity differing from the
\* cache, so that serialization is attempted) returns an error to the caller, makes
\* no stream operation and leaves the client as it was.
C12_SerializationErrorReturned ==
    \A n \in 1..Len(calls) :
        (/\ calls[n].op = "update"
         /\ calls[n].arg.json = "Err"
         /\ calls[n].arg.activity # calls[n].before.last_activity)
        => /\ calls[n].res = "Err"
           /\ ~Sent(n)
           /\ calls[n].after = calls[n].before

\* the lookup order of the environment variables
EnvOrder == << "XDG_RUNTIME_DIR", "TMPDIR", "TMP", "TEMP" >>

\* the value of the first variable of EnvOrder that is set, /tmp when none is
FirstSetValue ==
    LET set == {k \in 1..Len(EnvOrder) : environ[EnvOrder[k]] # None}
    IN  IF set = {} THEN "/tmp"
        ELSE environ[EnvOrder[CHOOSE k \in set : \A l \in set : k <= l]][1]

\* C13: every path a connect call tries is <dir>/discord-ipc-<index>, with dir the
\* value of the first set variable among XDG_RUNTIME_DIR, TMPDIR, TMP, TEMP, and
\* /tmp when none of them is set; one path per attempt, all in that directory.
C13_DirectoryPrecedence ==
    phase # "unconnected" =>
        /\ Len(paths) = Len(attempts)
        /\ \A j \in 1..Len(paths) :
              paths[j] = << FirstSetValue, "/discord-ipc-", attempts[j] >>

\* C13 witness: all ten candidates tried in the directory of TMP, with TEMP set to
\* another directory and the two variables before TMP unset
C13_Witness ==
    /\ phase = "failed"
    /\ Len(paths) = NumCandidates
    /\ environ["XDG_RUNTIME_DIR"] = None
    /\ environ["TMPDIR"] = None
    /\ environ["TMP"] = Some("/var/tmp")
    /\ environ["TEMP"] = Some("/run/user/1000")
    /\ \A j \in 1..Len(paths) : paths[j][1] = "/var/tmp"

\* the decimal digits of n as ASCII bytes, most significant first
DigitsOf(n) ==
    LET k == CHOOSE d \in 1..10 :
                 /\ n \div (10 ^ (d - 1)) < 10
                 /\ \A e \in 1..(d - 1) : n \div (10 ^ (e - 1)) >= 10
    IN  [j \in 1..k |-> 48 + ((n \div (10 ^ (k - j))) % 10)]

\* the bytes of {"v": 1,"client_id":"<id>"}
HandshakeJson(id) ==
    << 123, 34, 118, 34, 58, 32, 49, 44, 34, 99, 108, 105, 101, 110, 116, 95,
       105, 100, 34, 58, 34 >> \o DigitsOf(id) \o << 34, 125 >>

\* the bytes of {"v": 1,"client_id":"12345"}
HandshakeJson12345 ==
    << 123, 34, 118, 34, 58, 32, 49, 44, 34, 99, 108, 105, 101, 110, 116, 95,
       105, 100, 34, 58, 34, 49, 50, 51, 52, 53, 34, 125 >>

\* C14: a handshake on a held transport writes one frame and nothing else: a header
\* of opcode 0 whose length is that of the payload, then (the header written) the
\* payload {"v": 1,"client_id":"<decimal client id>"} byte for byte; it returns Ok
\* exactly when both writes succeeded and leaves the client (client_id,
\* last_activity, transport) as it was.
C14_HandshakeFrame ==
    \A n \in 1..Len(calls) :
        (calls[n].op = "handshake" /\ calls[n].held)
        => LET lo == calls[n].from
               hi == calls[n].to
               json == HandshakeJson(calls[n].before.client_id)
           IN  /\ calls[n].after = calls[n].before
               /\ calls[n].before.client_id = 12345 => json = HandshakeJson12345
               /\ hi \in {lo + 1, lo + 2}
               /\ wire[lo + 1].kind = "write_all"
               /\ Len(wire[lo + 1].buf) = 8
               /\ opcode_of(wire[lo + 1].buf) = 0
               /\ decode(wire[lo + 1].buf) = Len(json)
               /\ (hi = lo + 2) <=> wire[lo + 1].ok
               /\ (hi = lo + 2)
                  => (wire[hi].kind = "write_all" /\ wire[hi].buf = json)
               /\ (calls[n].res = "Ok") <=> (\A k \in (lo + 1)..hi : wire[k].ok)

\* C14 witness: a successful handshake by the client 12345, its payload on the wire
C14_Witness ==
    \E n \in 1..Len(calls) :
        /\ calls[n].op = "handshake"
        /\ calls[n].held
        /\ calls[n].res = "Ok"
        /\ calls[n].before.client_id = 12345
        /\ wire[calls[n].to].buf = HandshakeJson12345

\* update call n announced an activity other than the cached one, on a held
\* transport, with a packet that serializes
Announces(n) ==
    /\ calls[n].op = "update"
    /\ calls[n].held
    /\ calls[n].arg.json = "Ok"
    /\ calls[n].arg.activity # calls[n].before.last_activity

\* the first half of C15: such an update makes one frame write attempt and no
\* second one: a header of opcode 1 and the payload's length, then (the header
\* written) the serialized packet, and nothing more
OneWriteAttempt(n) ==
    LET lo == calls[n].from
        hi == calls[n].to
        json == to_json(calls[n].arg)[1]
    IN  /\ hi \in {lo + 1, lo + 2}
        /\ wire[lo + 1].kind = "write_all"
        /\ Len(wire[lo + 1].buf) = 8
        /\ opcode_of(wire[lo + 1].buf) = 1
        /\ decode(wire[lo + 1].buf) = Len(json)
        /\ (hi = lo + 2) <=> wire[lo + 1].ok
        /\ (hi = lo + 2) => (wire[hi].kind = "write_all" /\ wire[hi].buf = json)

\* C15: an update whose activity differs from the cache makes exactly one frame
\* write attempt (opcode 1, the serialized activity), without retry, so that
\* update(A), update(B), update(A) writes three frames; and after each such update
\* that succeeded the cache holds the activity just announced.
C15_OneWritePerAnnouncement ==
    \A n \in 1..Len(calls) :
        Announces(n)
        => /\ OneWriteAttempt(n)
           /\ calls[n].res = "Ok" => calls[n].after.last_activity = calls[n].arg.activity

\* the write half of C15 alone, which the code satisfies
C15_WritesOnly ==
    \A n \in 1..Len(calls) : Announces(n) => OneWriteAttempt(n)

\* update(A), update(B), update(A) in a row, A # B, all writes succeeding, with
\* three frames written
C15_ThreeFrames ==
    /\ Len(calls) >= 3
    /\ \A n \in 1..3 : Announces(n) /\ calls[n].res = "Ok"
    /\ calls[1].arg.activity = calls[3].arg.activity
    /\ calls[1].arg.activity # calls[2].arg.activity
    /\ Cardinality(HeadersIn(0, calls[3].to)) = 3

\* the (opcode, payload) that call n hands to write: its own arguments for a direct
\* write, and those the code of handshake, update and clear passes on
FrameArgs(n) ==
    IF calls[n].op = "write" THEN calls[n].arg
    ELSE IF calls[n].op = "handshake"
    THEN << 0, Some(HandshakeJson(calls[n].before.client_id)) >>
    ELSE IF calls[n].op = "update" THEN << 1, to_json(calls[n].arg) >>
    ELSE << 1, None >>

\* call n reaches write with a transport held
ReachesWrite(n) ==
    /\ calls[n].held
    /\ \/ calls[n].op \in {"write", "handshake", "clear"}
       \/ Announces(n)

\* C16: a write on a held transport puts the 8-byte header first, its opcode field
\* the opcode given and its length field the exact length of the payload (0 when
\* there is none); the payload bytes follow only when there is a payload and the
\* header write succeeded, and nothing else is written.
C16_FrameWellFormed ==
    \A n \in 1..Len(calls) :
        ReachesWrite(n)
        => LET lo == calls[n].from
               hi == calls[n].to
               opcode == FrameArgs(n)[1]
               data == FrameArgs(n)[2]
           IN  /\ hi >= lo + 1
               /\ wire[lo + 1].kind = "write_all"
               /\ Len(wire[lo + 1].buf) = 8
               /\ opcode_of(wire[lo + 1].buf) = opcode
               /\ decode(wire[lo + 1].buf) = (IF data = None THEN 0 ELSE Len(data[1]))
               /\ (hi > lo + 1)
                  => /\ hi = lo + 2
                     /\ data # None
                     /\ wire[lo + 1].ok
                     /\ wire[hi].kind = "write_all"
                     /\ wire[hi].buf = data[1]
               /\ (data # None /\ wire[lo + 1].ok) => hi = lo + 2

\* C16 witness: a direct write with a payload whose header write failed, and one
\* whose header and payload were both written
C16_Witness ==
    /\ \E n \in 1..Len(calls) :
          /\ calls[n].op = "write" /\ calls[n].held
          /\ calls[n].arg[2] # None
          /\ ~wire[calls[n].from + 1].ok
          /\ calls[n].to = calls[n].from + 1
    /\ \E n \in 1..Len(calls) :
          /\ calls[n].op = "write" /\ calls[n].held
          /\ calls[n].res = "Ok"
          /\ calls[n].to = calls[n].from + 2
          /\ wire[calls[n].to].buf = << 120, 121 >>

\* C17: write, read, handshake, update and clear leave the transport as it was, so
\* that one of them failing on a held transport returns the error with the
\* transport still held; a held transport becomes absent only in a close call.
C17_NoAutoEviction ==
    /\ Len(calls) > 0 => pipe = LastCall.after.pipe
    /\ \A n \in 1..Len(calls) :
          /\ calls[n].op \in IoOps => calls[n].after.pipe = calls[n].before.pipe
          /\ (calls[n].before.pipe # None /\ calls[n].after.pipe = None)
             => calls[n].op = "close"
          /\ (\E k \in (calls[n].from + 1)..calls[n].to : ~wire[k].ok)
             => calls[n].res = "Err"

\* C17 witness: a failed read and a failed write on a transport that is still held
C17_Witness ==
    /\ pipe # None
    /\ \E n \in 1..Len(calls) :
          calls[n].op = "read" /\ calls[n].held /\ calls[n].res = "Err"
    /\ \E n \in 1..Len(calls) :
          /\ calls[n].op \in {"write", "handshake", "update", "clear"}
          /\ calls[n].held
          /\ calls[n].res = "Err"
          /\ ~wire[calls[n].to].ok

\* C18: a clear on a held transport makes one stream operation, the write of the
\* header of opcode 1 and length 0, with no payload write after it; it returns Ok
\* exactly when that write succeeded, and leaves last_activity, client_id and the
\* transport as they were.
C18_ClearFrame ==
    \A n \in 1..Len(calls) :
        (calls[n].op = "clear" /\ calls[n].held)
        => /\ calls[n].to = calls[n].from + 1
           /\ wire[calls[n].to].kind = "write_all"
           /\ Len(wire[calls[n].to].buf) = 8
           /\ opcode_of(wire[calls[n].to].buf) = 1
           /\ decode(wire[calls[n].to].buf) = 0
           /\ (calls[n].res = "Ok") <=> wire[calls[n].to].ok
           /\ calls[n].after = calls[n].before
           /\ n = Len(calls) => Self = calls[n].before

\* C18 witness: a clear that wrote its frame after an update had announced an activity
C18_Witness ==
    \E n \in 2..Len(calls) :
        /\ calls[n].op = "clear"
        /\ calls[n].held
        /\ calls[n].res = "Ok"
        /\ Announces(n - 1)
        /\ calls[n - 1].res = "Ok"

\* C19: after a close call the client holds no transport, however the call ended:
\* a close whose write or flush failed returns the error and has still given the
\* transport up, the flush being attempted only after a successful write; the
\* next close finds no transport, does nothing and returns Ok.
C19_CloseReleasesOnEveryPath ==
    \A n \in 1..Len(calls) :
        calls[n].op = "close"
        => /\ calls[n].after.pipe = None
           /\ n = Len(calls) => pipe = None
           /\ (\E k \in (calls[n].from + 1)..calls[n].to : ~wire[k].ok)
              <=> calls[n].res = "Err"
           /\ calls[n].held
              => /\ calls[n].to >= calls[n].from + 1
                 /\ wire[calls[n].from + 1].kind = "write_all"
                 /\ (calls[n].to = calls[n].from + 2) <=> wire[calls[n].from + 1].ok
                 /\ (calls[n].to = calls[n].from + 2) => wire[calls[n].to].kind = "flush"
           /\ (n < Len(calls) /\ calls[n + 1].op = "close")
              => (~calls[n + 1].held /\ ~Sent(n + 1) /\ calls[n + 1].res = "Ok")

\* C19 witness: a close whose write of the Close frame failed, followed by a
\* second close
C19_Witness ==
    \E n \in 1..(Len(calls) - 1) :
        /\ calls[n].op = "close"
        /\ calls[n].held
        /\ calls[n].res = "Err"
        /\ ~wire[calls[n].to].ok
        /\ wire[calls[n].to].kind = "write_all"
        /\ calls[n + 1].op = "close"
        /\ calls[n + 1].res = "Ok"
        /\ pipe = None

\* C20: an update whose packet carries no activity, on a client whose last_activity
\* is None, is taken for a duplicate: it makes no stream operation, does not
\* serialize the packet, returns Ok and leaves the client as it was.
C20_NoneIsDuplicateOfNone ==
    \A n \in 1..Len(calls) :
        (/\ calls[n].op = "update"
         /\ calls[n].arg.activity = None
         /\ calls[n].before.last_activity = None)
        => /\ ~Sent(n)
           /\ calls[n].res = "Ok"
           /\ calls[n].after = calls[n].before

\* C20 witness: the first call after connect is such an update, on a held transport
C20_Witness ==
    /\ Len(calls) >= 1
    /\ calls[1].op = "update"
    /\ calls[1].held
    /\ calls[1].arg.activity = None
    /\ calls[1].res = "Ok"
    /\ wire = <<>>

====
